---- MODULE Spec2Model ----
(***************************************************************************)
(* pyoak.match.xpath: the xpath grammar and its transformer, the bottom-up *)
(* matcher, the top-down search and the process-wide cache of compiled     *)
(* paths (ASTXpath.__new__ / __init__).                                    *)
(*                                                                         *)
(* A source string is kept as what the grammar sees of it: whether it      *)
(* starts with "/", and its "/"-introduced segments, each with an optional *)
(* field_spec, an optional index_spec (its DIGIT tokens) and an optional   *)
(* class_spec.  Python's None is the empty set, a present value x is {x}.  *)
(***************************************************************************)
EXTENDS Integers, Sequences, FiniteSets, TLC

VARIABLES
    cache,      \* _AST_XPATH_CACHE: a function from its keys to object ids
    objs,       \* the ASTXpath objects ever allocated, by id
    hist,       \* the finished ASTXpath(...) calls of the sequential caller
    tpc,        \* per thread: the step its ASTXpath(...) call is at
    targ,       \* per thread: the xpath argument of the call
    tself,      \* per thread: the object __new__ returned
    tree,       \* the AST the path is applied to
    src,        \* the source string given to ASTXpath
    stage,      \* "start" | "compiled" | "error" | "matched" | "found"
    matched,    \* the nodes n of the tree for which xp.match(n) returned True
    root,       \* the argument of xp.findall
    found       \* list(xp.findall(root))

vars == <<cache, objs, hist, tpc, targ, tself, tree, src, stage, matched,
          root, found>>

cacheVars == <<cache, objs, hist>>
threadVars == <<tpc, targ, tself>>
findVars == <<tree, src, stage, matched, root, found>>

----------------------------------------------------------------------------
(* Bounds *)

\* nodes of a tree
MaxNodes == 3
\* segments of a source string (search specification)
MaxSegs == 3
\* segments of a source string (parse specification)
MaxParseSegs == 2
\* nodes of a tree (parse specification)
MaxParseNodes == 3
\* DIGIT tokens of an index_spec
MaxDigits == 2
\* the DIGIT tokens used are 0..MaxDigit
MaxDigit == 1
\* ASTXpath(...) calls of the sequential caller
MaxCalls == 4
\* threads calling ASTXpath(...) concurrently
MaxThreads == 3

----------------------------------------------------------------------------
(* Optional values and sequence helpers *)

None == {}
Some(x) == {x}
The(o) == CHOOSE x \in o : TRUE

Reverse(s) == [i \in 1..Len(s) |-> s[Len(s) + 1 - i]]

Range(s) == {s[i] : i \in 1..Len(s)}

RECURSIVE Concat(_)
Concat(ss) == IF ss = <<>> THEN <<>> ELSE Head(ss) \o Concat(Tail(ss))

RECURSIVE SortedSeq(_)
SortedSeq(S) ==
    IF S = {} THEN <<>>
    ELSE LET m == CHOOSE x \in S : \A y \in S : x <= y
         IN <<m>> \o SortedSeq(S \ {m})

RECURSIVE SeqsUpTo(_, _)
SeqsUpTo(S, n) ==
    IF n = 0 THEN {<<>>}
    ELSE LET shorter == SeqsUpTo(S, n - 1)
         IN shorter \cup {Append(s, x) : s \in {t \in shorter : Len(t) = n - 1}, x \in S}

----------------------------------------------------------------------------
(* Node types and their names (pyoak.node, pyoak.match.helpers) *)

ASTNode == "ASTNode"

\* The registered subclasses of ASTNode.
NodeTypes == {"A", "B"}

\* check_and_get_ast_node_type(name): the type of that name, or None.
check_and_get_ast_node_type(name) ==
    IF name \in NodeTypes \cup {ASTNode} THEN Some(name) ELSE None

\* isinstance(node, cls) for a node of runtime type ty.
IsInstance(ty, cls) == cls = ASTNode \/ ty = cls

----------------------------------------------------------------------------
(* Source strings *)

\* One "/"-introduced segment as the grammar's rules element and self see it.
Segment(f, i, c) == [field |-> f, index |-> i, cls |-> c]

EmptySegment == Segment(None, None, None)

Source(startsWithSlash, segs) == [slash |-> startsWithSlash, segs |-> segs]

\* ASTXpath.__init__: a path not starting with "/" gets "//" in front, that
\* is one empty segment before its first segment.
Normalize(source) ==
    IF source.slash THEN source.segs ELSE <<EmptySegment>> \o source.segs

\* The grammar: element* self, self needs its class_spec, field_spec needs
\* its CNAME (the empty name "" stands for a missing CNAME).
Syntactic(segs) ==
    /\ Len(segs) >= 1
    /\ segs[Len(segs)].cls # None
    /\ \A i \in 1..Len(segs) : segs[i].field # Some("")

----------------------------------------------------------------------------
(* XPathTransformer *)

ASTXpathElement(c, f, i, a) ==
    [ast_class |-> c, parent_field |-> f, parent_index |-> i, anywhere |-> a]

\* field_spec(args): the CNAME.
field_spec(args) == args[1]

\* index_spec(args): args are the DIGIT tokens, one per digit.
index_spec(args) == IF Len(args) = 0 THEN -1 ELSE args[1]

\* class_spec(args): the resolved type, None where the code raises.
class_spec(args) == check_and_get_ast_node_type(args[1])

\* element(args) and self(args), args being the transformed children of the
\* segment: a tuple (parent_field, parent_index, ast_class).
element(seg) ==
    IF seg.field = None /\ seg.index = None /\ seg.cls = None
    THEN [parent_field |-> None, parent_index |-> None, ast_class |-> None]
    ELSE [parent_field |-> IF seg.field = None THEN None
                           ELSE Some(field_spec(<<The(seg.field)>>)),
          parent_index |-> IF seg.index = None THEN None
                           ELSE LET arg == index_spec(The(seg.index))
                                IN IF arg > -1 THEN Some(arg) ELSE None,
          ast_class    |-> IF seg.cls = None THEN Some(ASTNode)
                           ELSE class_spec(<<The(seg.cls)>>)]

SetAnywhere(ret) == [ret EXCEPT ![Len(ret)].anywhere = TRUE]

\* xpath(args): args[i] is the next tuple of reversed(args) to take, ret the
\* elements appended so far.
RECURSIVE xpath_from(_, _, _)
xpath_from(args, i, ret) ==
    IF i = 0 THEN ret
    ELSE IF args[i].ast_class # None
    THEN xpath_from(args, i - 1,
                    Append(ret, ASTXpathElement(The(args[i].ast_class),
                                                args[i].parent_field,
                                                args[i].parent_index, FALSE)))
    ELSE IF i = 1 THEN SetAnywhere(ret)
    ELSE xpath_from(args, i - 1, SetAnywhere(ret))

xpath(args) == xpath_from(args, Len(args), <<>>)

\* xpath_parser.parse(source) as __init__ sees it: the element list, or a
\* definition error (UnexpectedInput, or class_spec raising).
Parse(segs) ==
    IF ~Syntactic(segs) THEN [ok |-> FALSE, elements |-> <<>>]
    ELSE IF \E i \in 1..Len(segs) :
                segs[i].cls # None /\ class_spec(<<The(segs[i].cls)>>) = None
    THEN [ok |-> FALSE, elements |-> <<>>]
    ELSE [ok |-> TRUE, elements |-> xpath([i \in 1..Len(segs) |-> element(segs[i])])]

----------------------------------------------------------------------------
(* Trees of ASTNode (pyoak.node): nodes 1..n numbered in depth-first order, *)
(* so that a node's children and descendants are met in increasing order.   *)
(* parent[x] = NoNode is parent None; field[x] and index[x] are the node's  *)
(* parent_field name and parent_index.                                      *)

NoNode == 0

SingleField == "test"      \* a field holding one child (parent_index None)
ListField == "body"        \* a field holding a sequence of children

Nodes(t) == 1..t.n

Parent(t, node) == t.parent[node]

\* node.ancestors(): the parent, its parent, ... up to the root
RECURSIVE Ancestors(_, _)
Ancestors(t, node) ==
    IF Parent(t, node) = NoNode THEN <<>>
    ELSE <<Parent(t, node)>> \o Ancestors(t, Parent(t, node))

\* node.get_child_nodes()
GetChildNodes(t, node) == SortedSeq({m \in Nodes(t) : Parent(t, m) = node})

\* node.dfs(skip_self=True)
Dfs(t, node) == SortedSeq({m \in Nodes(t) : node \in Range(Ancestors(t, m))})

\* _DUMMY_XPATH_ROOT(root): a node outside the tree whose only child is root;
\* the tree itself is left as it is.
DummyRoot == 0

Extend(t, p, ty, f, i) ==
    [n |-> t.n + 1, parent |-> Append(t.parent, p), type |-> Append(t.type, ty),
     field |-> Append(t.field, f), index |-> Append(t.index, i)]

\* The slots a further child of p can take: fields in declaration order
\* (SingleField, then ListField), the items of ListField at 0, 1, 2, ...
NextSlots(t, p) ==
    LET kids == {m \in Nodes(t) : Parent(t, m) = p}
        last == CHOOSE m \in kids : \A k \in kids : k <= m
    IN IF kids = {}
       THEN {<<Some(SingleField), None>>, <<Some(ListField), Some(0)>>}
       ELSE IF t.field[last] = Some(SingleField)
       THEN {<<Some(ListField), Some(0)>>}
       ELSE {<<Some(ListField), Some(The(t.index[last]) + 1)>>}

RECURSIVE TreesOfSize(_)
TreesOfSize(n) ==
    IF n = 1
    THEN {[n |-> 1, parent |-> <<NoNode>>, type |-> <<ty>>, field |-> <<None>>,
           index |-> <<None>>] : ty \in NodeTypes}
    ELSE UNION {UNION {{Extend(t, p, ty, slot[1], slot[2]) :
                            ty \in NodeTypes, slot \in NextSlots(t, p)} :
                       p \in {t.n} \cup Range(Ancestors(t, t.n))} :
                t \in TreesOfSize(n - 1)}

Trees(max) == UNION {TreesOfSize(n) : n \in 1..max}

----------------------------------------------------------------------------
(* The bottom-up matcher *)

match_node_element(t, node, el) ==
    /\ IsInstance(t.type[node], el.ast_class)
    /\ \/ el.parent_field = None
       \/ (t.field[node] # None /\ el.parent_field = t.field[node])
    /\ (el.parent_index = None \/ el.parent_index = t.index[node])

\* line 164: the last element matched
AnyLastElement(t, node, el) == TRUE
LastElementMatch(t, node, el) == el.anywhere \/ Parent(t, node) = NoNode

\* lines 172-179: the nodes the rest of the path is tried on
OnlyParent(t, node, el) == <<Parent(t, node)>>
Upward(t, node, el) ==
    IF el.anywhere THEN Ancestors(t, node) ELSE <<Parent(t, node)>>

RECURSIVE match_node_xpath(_, _, _)
match_node_xpath(t, node, elements) ==
    LET el == elements[1]
        tail == Tail(elements)
    IN IF ~match_node_element(t, node, el) THEN FALSE
       ELSE IF Len(tail) = 0 THEN LastElementMatch(t, node, el)
       ELSE IF Parent(t, node) = NoNode THEN FALSE
       ELSE LET up == Upward(t, node, el)
            IN \E k \in 1..Len(up) : match_node_xpath(t, up[k], tail)

\* ASTXpath.match(node)
match(obj, t, node) == match_node_xpath(t, node, The(obj.elements_reversed))

----------------------------------------------------------------------------
(* The top-down search *)

\* lines 244-251: the nodes of one work item that are tested against el
ChildrenOnly(t, r, node, el) ==
    IF node = DummyRoot THEN <<r>> ELSE GetChildNodes(t, node)
Scan(t, r, node, el) ==
    IF el.anywhere
    THEN IF node = DummyRoot THEN <<r>> \o Dfs(t, r) ELSE Dfs(t, node)
    ELSE IF node = DummyRoot THEN <<r>> ELSE GetChildNodes(t, node)

\* lines 241-253: one round of the loop over self._elements
NewWork(t, r, work, el) ==
    LET Keep(n) == match_node_element(t, n, el)
    IN Concat([k \in 1..Len(work) |-> SelectSeq(Scan(t, r, work[k], el), Keep)])

RECURSIVE findall_from(_, _, _, _, _)
findall_from(t, r, elements, i, work) ==
    IF i > Len(elements) THEN work
    ELSE findall_from(t, r, elements, i + 1, NewWork(t, r, work, elements[i]))

\* list(ASTXpath.findall(root))
findall(obj, t, r) == findall_from(t, r, The(obj.elements), 1, <<DummyRoot>>)

----------------------------------------------------------------------------
(* ASTXpath objects and the cache *)

NoObj == 0

\* super().__new__(cls): an object with neither attribute set.
BareObject == [elements_reversed |-> None, elements |-> None, writes |-> 0]

\* line 215: self._elements = list(reversed(self._elements_reversed))
SetElementsForgotten(obj) == obj
SetElements(obj) ==
    [obj EXCEPT !.elements = Some(Reverse(The(obj.elements_reversed))),
                !.writes = @ + 1]

\* line 209: self._elements_reversed = xpath_parser.parse(xpath)
SetElementsReversed(obj, elems) == [obj EXCEPT !.elements_reversed = Some(elems)]

\* ASTXpath.__init__(self, source): the object afterwards; unchanged when the
\* parse raises.
Init__(obj, source) ==
    LET p == Parse(Normalize(source))
    IN IF p.ok THEN SetElements(SetElementsReversed(obj, p.elements)) ELSE obj

Raises(source) == ~Parse(Normalize(source)).ok

Constructed(obj) == obj.elements_reversed # None /\ obj.elements # None

\* line 198: xpath in _AST_XPATH_CACHE
AlwaysMiss(c, source) == FALSE
CacheHit(c, source) == source \in DOMAIN c

\* line 199: _AST_XPATH_CACHE[xpath] = super().__new__(cls)
Allocate(o) == Append(o, BareObject)
Insert(c, o, source) ==
    [s \in DOMAIN c \cup {source} |-> IF s = source THEN Len(o) ELSE c[s]]

\* The source strings the callers of the cache use:
\* "/A", "B", "/A//B", "/@[0]" (no CNAME, no class) and "/Zed" (no such type).
SrcA == Source(TRUE, <<Segment(None, None, Some("A"))>>)
SrcRelB == Source(FALSE, <<Segment(None, None, Some("B"))>>)
SrcADeepB == Source(TRUE, <<Segment(None, None, Some("A")), EmptySegment,
                            Segment(None, None, Some("B"))>>)
SrcMalformed == Source(TRUE, <<Segment(Some(""), Some(<<0>>), None)>>)
SrcUnknown == Source(TRUE, <<Segment(None, None, Some("Zed"))>>)

CacheSources == {SrcA, SrcRelB, SrcADeepB, SrcMalformed, SrcUnknown}
ThreadSources == {SrcA, SrcUnknown}

Threads == 1..MaxThreads

\* The tree part of the state where no tree is used.
NoTree == [n |-> 0, parent |-> <<>>, type |-> <<>>, field |-> <<>>, index |-> <<>>]

FindIdle ==
    /\ tree = NoTree
    /\ src = SrcA
    /\ stage = "off"
    /\ matched = {}
    /\ root = 0
    /\ found = <<>>

CacheEmpty ==
    /\ cache = <<>>
    /\ objs = <<>>
    /\ hist = <<>>

ThreadsIdle ==
    /\ tpc = [t \in Threads |-> "idle"]
    /\ targ = [t \in Threads |-> SrcA]
    /\ tself = [t \in Threads |-> NoObj]

----------------------------------------------------------------------------
(* Spec: one caller compiling paths, one ASTXpath(source) call per step *)

Init == CacheEmpty /\ ThreadsIdle /\ FindIdle

\* ASTXpath(source): __new__, then __init__ on what __new__ returned.
CompileCall(source) ==
    LET hit == CacheHit(cache, source)
        objs1 == IF hit THEN objs ELSE Allocate(objs)
        cache1 == IF hit THEN cache ELSE Insert(cache, objs1, source)
        self == cache1[source]
    IN /\ cache' = cache1
       /\ objs' = [objs1 EXCEPT ![self] = Init__(@, source)]
       /\ hist' = Append(hist, [source |-> source, raised |-> Raises(source),
                                obj |-> IF Raises(source) THEN NoObj ELSE self,
                                hit |-> hit])

Compile(source) ==
    /\ Len(hist) < MaxCalls
    /\ CompileCall(source)
    /\ UNCHANGED <<threadVars, findVars>>

Next == \E source \in CacheSources : Compile(source)

Spec == Init /\ [][Next]_vars

----------------------------------------------------------------------------
(* SpecThreads: each thread makes one ASTXpath(source) call, the steps of  *)
(* the calls interleaved                                                   *)

InitThreads == CacheEmpty /\ ThreadsIdle /\ FindIdle

Call(t, source) ==
    /\ tpc[t] = "idle"
    /\ tpc' = [tpc EXCEPT ![t] = "new"]
    /\ targ' = [targ EXCEPT ![t] = source]
    /\ UNCHANGED <<cache, objs, hist, tself, findVars>>

\* line 198: if xpath not in _AST_XPATH_CACHE
NewCheck(t) ==
    /\ tpc[t] = "new"
    /\ tpc' = [tpc EXCEPT ![t] = IF CacheHit(cache, targ[t]) THEN "lookup" ELSE "insert"]
    /\ UNCHANGED <<cache, objs, hist, targ, tself, findVars>>

\* line 199
NewInsert(t) ==
    /\ tpc[t] = "insert"
    /\ objs' = Allocate(objs)
    /\ cache' = Insert(cache, objs', targ[t])
    /\ tpc' = [tpc EXCEPT ![t] = "lookup"]
    /\ UNCHANGED <<hist, targ, tself, findVars>>

\* line 200: return _AST_XPATH_CACHE[xpath]
NewReturn(t) ==
    /\ tpc[t] = "lookup"
    /\ tself' = [tself EXCEPT ![t] = cache[targ[t]]]
    /\ tpc' = [tpc EXCEPT ![t] = "parse"]
    /\ UNCHANGED <<cache, objs, hist, targ, findVars>>

\* lines 203-212, 216-223: parse and store _elements_reversed, or raise
InitParse(t) ==
    /\ tpc[t] = "parse"
    /\ LET p == Parse(Normalize(targ[t]))
       IN /\ objs' = IF p.ok
                     THEN [objs EXCEPT ![tself[t]] = SetElementsReversed(@, p.elements)]
                     ELSE objs
          /\ tpc' = [tpc EXCEPT ![t] = IF p.ok THEN "reverse" ELSE "raised"]
    /\ UNCHANGED <<cache, hist, targ, tself, findVars>>

\* line 215, after which the call returns self to its caller
InitReverse(t) ==
    /\ tpc[t] = "reverse"
    /\ objs' = [objs EXCEPT ![tself[t]] = SetElements(@)]
    /\ tpc' = [tpc EXCEPT ![t] = "returned"]
    /\ UNCHANGED <<cache, hist, targ, tself, findVars>>

NextThreads ==
    \E t \in Threads :
        \/ \E source \in ThreadSources : Call(t, source)
        \/ NewCheck(t)
        \/ NewInsert(t)
        \/ NewReturn(t)
        \/ InitParse(t)
        \/ InitReverse(t)

SpecThreads == InitThreads /\ [][NextThreads]_vars

----------------------------------------------------------------------------
(* SpecFind: a path is compiled, match is asked of every node of a tree and *)
(* findall is run from one of its nodes                                     *)

\* Source strings of at most max segments over the segments segs: the last
\* segment has its class_spec, and a string not starting with "/" does not
\* start with an empty segment either.
Sources(segs, max) ==
    {Source(sl, ss) : sl \in BOOLEAN,
                      ss \in {q \in SeqsUpTo(segs, max) :
                                  Len(q) >= 1 /\ q[Len(q)].cls # None}}
    \ {x \in [slash : {FALSE}, segs : SeqsUpTo(segs, max)] :
           x.segs # <<>> /\ x.segs[1] = EmptySegment}

FindSegments ==
    {Segment(None, None, c) : c \in {None} \cup {Some(ty) : ty \in NodeTypes}}
    \cup {Segment(Some(ListField), Some(<<1>>), Some("B")),
          Segment(Some(ListField), None, None)}

FindStart ==
    /\ stage = "start"
    /\ matched = {}
    /\ root = NoNode
    /\ found = <<>>

InitFind ==
    /\ CacheEmpty
    /\ ThreadsIdle
    /\ tree \in Trees(MaxNodes)
    /\ src \in Sources(FindSegments, MaxSegs)
    /\ FindStart

\* The ASTXpath object of src
XP == objs[cache[src]]

\* xp = ASTXpath(src)
CompilePath ==
    /\ stage = "start"
    /\ CompileCall(src)
    /\ stage' = IF Raises(src) THEN "error" ELSE "compiled"
    /\ UNCHANGED <<threadVars, tree, src, matched, root, found>>

\* xp.match(node) for every node of the tree
MatchNodes ==
    /\ stage = "compiled"
    /\ matched' = {node \in Nodes(tree) : match(XP, tree, node)}
    /\ stage' = "matched"
    /\ UNCHANGED <<cacheVars, threadVars, tree, src, root, found>>

\* list(xp.findall(r))
FindAll(r) ==
    /\ stage = "matched"
    /\ root' = r
    /\ found' = findall(XP, tree, r)
    /\ stage' = "found"
    /\ UNCHANGED <<cacheVars, threadVars, tree, src, matched>>

NextFind ==
    \/ CompilePath
    \/ MatchNodes
    \/ \E r \in Nodes(tree) : FindAll(r)

SpecFind == InitFind /\ [][NextFind]_vars

----------------------------------------------------------------------------
(* SpecParse: as SpecFind, over source strings with index specs of several *)
(* digits and over smaller trees                                           *)

Digits == 0..MaxDigit

\* The DIGIT* of an index_spec: none, or a decimal numeral without leading 0
IndexSpecs == {ds \in SeqsUpTo(Digits, MaxDigits) : Len(ds) <= 1 \/ ds[1] # 0}

ParseSegments ==
    {Segment(f, i, c) :
        f \in {None, Some(ListField)},
        i \in {None} \cup {Some(ds) : ds \in IndexSpecs},
        c \in {None} \cup {Some(ty) : ty \in NodeTypes}}

InitParse_ ==
    /\ CacheEmpty
    /\ ThreadsIdle
    /\ tree \in Trees(MaxParseNodes)
    /\ src \in Sources(ParseSegments, MaxParseSegs)
    /\ FindStart

SpecParse == InitParse_ /\ [][NextFind]_vars

----------------------------------------------------------------------------
(* Claims about the cache (Spec) *)

Calls == DOMAIN hist

\* C1: calls ASTXpath(p) with the same valid source p return the identical
\* object, and no second object is ever allocated for a source: every object
\* allocated is the cache's entry of exactly one source.
C1_SameSourceSameObject ==
    /\ \A i, j \in Calls :
           (~hist[i].raised /\ ~hist[j].raised /\ hist[i].source = hist[j].source)
               => hist[i].obj = hist[j].obj
    /\ \A k \in DOMAIN objs : Cardinality({s \in DOMAIN cache : cache[s] = k}) = 1

C1_Witness ==
    \E i, j \in Calls :
        /\ i < j
        /\ hist[i].source = hist[j].source
        /\ ~hist[i].raised
        /\ hist[j].hit
        /\ \E k \in Calls : ~hist[k].raised /\ hist[k].source # hist[i].source

\* C2: a call that raised the definition error leaves no entry for its source
\* in the cache, and the cache holds no object whose element lists are unset.
C2_FailedCompileNotCached ==
    /\ \A i \in Calls : hist[i].raised => hist[i].source \notin DOMAIN cache
    /\ \A s \in DOMAIN cache : Constructed(objs[cache[s]])

\* C9: the element lists of an object are assigned once: a call that finds
\* its source in the cache does not parse and assign them again.
C9_ElementsDerivedOnce == \A k \in DOMAIN objs : objs[k].writes <= 1

----------------------------------------------------------------------------
(* Claims about concurrent calls (SpecThreads) *)

\* C4: under every interleaving of the steps of the calls, the object a call
\* returns to its caller has both element lists set.
C4_NoPartialObjectReturned ==
    \A t \in Threads : tpc[t] = "returned" => Constructed(objs[tself[t]])

C4_Witness ==
    \E t, u \in Threads :
        /\ t # u
        /\ tpc[t] = "returned"
        /\ targ[u] = targ[t]
        /\ tself[u] = tself[t]
        /\ tpc[u] = "parse"
        /\ Len(objs) = 2

----------------------------------------------------------------------------
(* Claims about match and findall (SpecFind) *)

Elements == The(XP.elements)

NoFilters == \A k \in DOMAIN Elements :
                 Elements[k].parent_field = None /\ Elements[k].parent_index = None

IsTreeRoot(node) == Parent(tree, node) = NoNode

\* The nodes of the subtree of node, node included
Subtree(node) == {node} \cup Range(Dfs(tree, node))

\* C3: for a path without field and index filters, a node is matched by
\* match exactly if findall from the parentless root of its tree returns it.
C3_MatchIffFoundFromRoot ==
    (stage = "found" /\ IsTreeRoot(root) /\ NoFilters)
        => \A node \in Nodes(tree) : node \in matched <=> node \in Range(found)

C3_Witness ==
    /\ stage = "found"
    /\ IsTreeRoot(root)
    /\ NoFilters
    /\ Len(Elements) = 2
    /\ Elements[2].anywhere
    /\ ~Elements[1].anywhere
    /\ tree.n = 3
    /\ matched = {3}
    /\ Parent(tree, 3) = 2

\* C7: for a path "/Root" (one segment after a single "/", a class and no
\* filter) match accepts exactly the parentless nodes of type Root, and
\* findall from the tree root returns those and no nested node.
C7_AbsoluteSegmentOnlyTreeRoot ==
    (/\ stage = "found"
     /\ src.slash
     /\ Len(src.segs) = 1
     /\ src.segs[1].field = None
     /\ src.segs[1].index = None)
        => /\ matched = {node \in Nodes(tree) :
                            /\ IsInstance(tree.type[node], The(src.segs[1].cls))
                            /\ IsTreeRoot(node)}
           /\ IsTreeRoot(root) => Range(found) = matched

C7_Witness ==
    /\ stage = "found"
    /\ src = SrcA
    /\ IsTreeRoot(root)
    /\ tree.type = <<"A", "B", "A">>
    /\ found = <<1>>
    /\ matched = {1}

\* C8 as claimed: from any node r, also one with a parent, findall(r) returns
\* exactly the nodes of the subtree of r that match accepts.
C8_FindAllFromAnyNode ==
    stage = "found" => Range(found) = matched \cap Subtree(root)

\* C8 as amended: from a node r without a parent, the set of nodes findall(r)
\* returns is exactly the set of nodes of the tree of r that match accepts.
C8_FindAllFromTreeRoot ==
    (stage = "found" /\ IsTreeRoot(root)) => Range(found) = matched

C8_Witness ==
    /\ stage = "found"
    /\ IsTreeRoot(root)
    /\ ~NoFilters
    /\ Len(Elements) = 2
    /\ Elements[2].anywhere
    /\ tree.n = 3
    /\ found = <<3>>
    /\ matched = {3}

\* C10: findall returns no node twice.
C10_FindAllNoDuplicates ==
    stage = "found" =>
        \A i, j \in DOMAIN found : i # j => found[i] # found[j]

----------------------------------------------------------------------------
(* Claims about index specs (SpecParse) *)

Compiled == stage \in {"compiled", "matched", "found"}

\* The number an index_spec's digits denote
RECURSIVE DigitsValue(_)
DigitsValue(ds) ==
    IF ds = <<>> THEN 0 ELSE 10 * DigitsValue(SubSeq(ds, 1, Len(ds) - 1)) + ds[Len(ds)]

NotEmptySegment(seg) == seg # EmptySegment

\* The segments that become elements, last first, as elements_reversed has them
ElementSegments(source) == Reverse(SelectSeq(Normalize(source), NotEmptySegment))

\* C5: a segment whose index spec has the digits of k compiles to an element
\* with index filter k, and a node matching a one-element path with such a
\* segment has parent_index k.
C5_IndexFilterIsTheNumber ==
    Compiled =>
        LET segs == ElementSegments(src)
            els == The(XP.elements_reversed)
        IN \A k \in DOMAIN segs :
               (segs[k].index # None /\ The(segs[k].index) # <<>>)
                   => /\ els[k].parent_index = Some(DigitsValue(The(segs[k].index)))
                      /\ Len(els) = 1 =>
                             \A node \in matched :
                                 tree.index[node] = Some(DigitsValue(The(segs[k].index)))

\* The source string without the "[]" of its i-th segment
StripIndex(source, i) ==
    LET segs == [source.segs EXCEPT ![i].index = None]
    IN IF ~source.slash /\ segs[1] = EmptySegment
       THEN Source(TRUE, Tail(segs))
       ELSE Source(source.slash, segs)

\* C6: taking an empty index spec "[]" out of any segment of a valid path
\* gives a path that compiles to the same elements.
C6_EmptyIndexSameAsNone ==
    Compiled =>
        \A i \in DOMAIN src.segs :
            src.segs[i].index = Some(<<>>)
                => Parse(Normalize(StripIndex(src, i))).elements = The(XP.elements_reversed)

====
